---- MODULE Spec2Model ----
(* Model of the Rust backend generator of lucet-idl                          *)
(* (src/lucet-idl/src/rust/mod.rs): the `defined` registry, the atomic type *)
(* table, the naming transform and the five Generator operations writing    *)
(* to a PrettyWriter.                                                       *)
EXTENDS Integers, Sequences, FiniteSets, TLC

\* ------------------------------------------------------------------ bounds
\* Identifiers are 1..MaxId.
MaxId == 2
\* A struct has at most MaxMembers members, an enum at most MaxMembers variants.
MaxMembers == 2

\* ------------------------------------------------------- characters, names
\* Strings are sequences of one-character strings, so that the casing
\* transforms can be computed as the library computes them.
LowerChars == {"a", "b", "c", "d", "x", "y", "z", "r", "g"}

UpperChars == {"A", "B", "C", "D", "X", "Y", "Z", "R", "G"}

ToUpper(c) ==
    CASE c = "a" -> "A" [] c = "b" -> "B" [] c = "c" -> "C" [] c = "d" -> "D"
      [] c = "x" -> "X" [] c = "y" -> "Y" [] c = "z" -> "Z" [] c = "r" -> "R"
      [] c = "g" -> "G" [] OTHER -> c

ToLower(c) ==
    CASE c = "A" -> "a" [] c = "B" -> "b" [] c = "C" -> "c" [] c = "D" -> "d"
      [] c = "X" -> "x" [] c = "Y" -> "y" [] c = "Z" -> "z" [] c = "R" -> "r"
      [] c = "G" -> "g" [] OTHER -> c

\* heck's word splitting: a word ends before an underscore, between a
\* lowercase and an uppercase letter, and before the last capital of a run of
\* capitals that is followed by a lowercase letter.
RECURSIVE SplitFrom(_, _, _, _, _)
SplitFrom(s, i, init, mode, acc) ==
    IF i > Len(s) THEN acc
    ELSE LET c == s[i] IN
      IF c = "_" THEN
          SplitFrom(s, i + 1, IF init = i THEN init + 1 ELSE init, mode, acc)
      ELSE IF i < Len(s) THEN
          LET next == s[i + 1]
              next_mode == IF c \in LowerChars THEN "Lowercase"
                           ELSE IF c \in UpperChars THEN "Uppercase" ELSE mode
          IN IF next = "_" \/ (next_mode = "Lowercase" /\ next \in UpperChars)
             THEN SplitFrom(s, i + 1, i + 1, "Boundary",
                            Append(acc, SubSeq(s, init, i)))
             ELSE IF mode = "Uppercase" /\ c \in UpperChars /\ next \in LowerChars
             THEN SplitFrom(s, i + 1, i, "Boundary",
                            Append(acc, SubSeq(s, init, i - 1)))
             ELSE SplitFrom(s, i + 1, init, next_mode, acc)
      ELSE Append(acc, SubSeq(s, init, Len(s)))

Words(s) == SplitFrom(s, 1, 1, "Boundary", <<>>)

Capitalize(w) ==
    [i \in 1..Len(w) |-> IF i = 1 THEN ToUpper(w[i]) ELSE ToLower(w[i])]

Lowercase(w) == [i \in 1..Len(w) |-> ToLower(w[i])]

RECURSIVE JoinCamel(_)
JoinCamel(ws) ==
    IF ws = <<>> THEN <<>> ELSE Capitalize(Head(ws)) \o JoinCamel(Tail(ws))

RECURSIVE JoinSnake(_)
JoinSnake(ws) ==
    IF ws = <<>> THEN <<>>
    ELSE IF Len(ws) = 1 THEN Lowercase(Head(ws))
    ELSE Lowercase(Head(ws)) \o <<"_">> \o JoinSnake(Tail(ws))

\* str::to_camel_case: every word capitalised, no separators.
to_camel_case(s) == JoinCamel(Words(s))

\* str::to_snake_case: every word lowercased, joined by underscores.
to_snake_case(s) == JoinSnake(Words(s))

\* ------------------------------------------------------------- data model
Idents == 1..MaxId

AtomKinds ==
    {"Bool", "U8", "U16", "U32", "U64", "I8", "I16", "I32", "I64", "F32", "F64"}

\* DataTypeRef::Atom(a) and DataTypeRef::Defined(id).
Atom(a) == [tag |-> "Atom", atom |-> a, id |-> 0]

Defined(i) == [tag |-> "Defined", atom |-> "", id |-> i]

NoRef == [tag |-> "None", atom |-> "", id |-> 0]

\* Named<DataType> with entity DataType::Alias { to }.
Alias(i, n, t) ==
    [id |-> i, name |-> n, kind |-> "Alias", to |-> t,
     members |-> <<>>, variants |-> <<>>]

\* Named<DataType> with entity DataType::Struct { members }.
Struct(i, n, ms) ==
    [id |-> i, name |-> n, kind |-> "Struct", to |-> NoRef,
     members |-> ms, variants |-> <<>>]

\* Named<DataType> with entity DataType::Enum { members }.
Enum(i, n, vs) ==
    [id |-> i, name |-> n, kind |-> "Enum", to |-> NoRef,
     members |-> <<>>, variants |-> vs]

\* Named<FuncDecl>.
Func(i, n) ==
    [id |-> i, name |-> n, kind |-> "Func", to |-> NoRef,
     members |-> <<>>, variants |-> <<>>]

NoDecl ==
    [id |-> 0, name |-> <<>>, kind |-> "None", to |-> NoRef,
     members |-> <<>>, variants |-> <<>>]

\* ------------------------------------------------------ atomic type table
\* RustGenerator::atom_name.
atom_name(atom_type) ==
    CASE atom_type = "Bool" -> <<"b", "o", "o", "l">>
      [] atom_type = "U8"   -> <<"u", "8">>
      [] atom_type = "U16"  -> <<"u", "1", "6">>
      [] atom_type = "U32"  -> <<"u", "3", "2">>
      [] atom_type = "U64"  -> <<"u", "6", "4">>
      [] atom_type = "I8"   -> <<"i", "3", "2">>
      [] atom_type = "I16"  -> <<"i", "1", "6">>
      [] atom_type = "I32"  -> <<"i", "3", "2">>
      [] atom_type = "I64"  -> <<"i", "6", "4">>
      [] atom_type = "F32"  -> <<"f", "3", "2">>
      [] atom_type = "F64"  -> <<"f", "6", "4">>

\* ---------------------------------------------------------------- registry
\* The registry `defined` is a function from the defined Idents to names.
\* HashMap::insert: inserts, or replaces the value of a key that is present.
insert(reg, k, v) == [x \in (DOMAIN reg) \cup {k} |-> IF x = k THEN v ELSE reg[x]]

\* A faulty define_name, against which C4_AliasResolvesToOwnName is validated:
\* it registers the declared name without casing it.
define_name_uncased(reg, data_type_entry) ==
    insert(reg, data_type_entry.id, data_type_entry.name)

\* RustGenerator::define_name (and the same two lines inlined in gen_struct
\* and gen_enum): the registry after the insertion.
define_name(reg, data_type_entry) ==
    insert(reg, data_type_entry.id, to_camel_case(data_type_entry.name))

\* Whether RustGenerator::get_defined_name returns (its expect() does not panic).
resolves(reg, data_type_ref) ==
    data_type_ref.tag = "Atom" \/ data_type_ref.id \in DOMAIN reg

\* RustGenerator::get_defined_name, where it returns.
get_defined_name(reg, data_type_ref) ==
    IF data_type_ref.tag = "Defined" THEN reg[data_type_ref.id]
    ELSE atom_name(data_type_ref.atom)

\* ------------------------------------------------------------- output sink
\* A line of output: the writer's indentation depth and the line's content.
Line(indent, kind, name, ty, dbg) ==
    [indent |-> indent, kind |-> kind, name |-> name, ty |-> ty, dbg |-> dbg]

\* The sink is write-only (a Box<dyn Write>): what it holds is never read back
\* or changed, every write appends. An invocation's effect on it is the
\* sequence of lines it appends.
\* The progress of one invocation: the lines it has appended, the number of
\* further writes the sink accepts, and the invocation's outcome so far
\* ("Ok" while it runs).
Start(cap) == [lines |-> <<>>, cap |-> cap, res |-> "Ok"]

\* PrettyWriter::write_line followed by `?`: appends one line at the writer's
\* depth; when the sink rejects the write the invocation returns the I/O error.
write_line(st, indent, kind, name, ty, dbg) ==
    IF st.res # "Ok" THEN st
    ELSE IF st.cap = 0 THEN [st EXCEPT !.res = "ErrIo"]
    ELSE [lines |-> Append(st.lines, Line(indent, kind, name, ty, dbg)),
          cap |-> st.cap - 1, res |-> "Ok"]

\* PrettyWriter::eob followed by `?`: the end-of-block spacing marker.
eob(st, indent) == write_line(st, indent, "blank", <<>>, <<>>, NoDecl)

\* A panic (expect, unreachable!, unimplemented!) ends the invocation.
panic(st, msg) == IF st.res # "Ok" THEN st ELSE [st EXCEPT !.res = msg]

\* PrettyWriter::new_block: a writer on the same sink, one level deeper.
new_block(indent) == indent + 1

\* ------------------------------------------------------------- operations
\* The outcome of one invocation: the registry, the lines appended, the result.
Outcome(reg, st) == [defined |-> reg, lines |-> st.lines, res |-> st.res]

\* A faulty gen_type_header, against which C8_HeaderFrame is validated: it
\* also registers the declaration's name.
run_gen_type_header_defining(reg, data_type_entry, cap) ==
    Outcome(define_name(reg, data_type_entry),
            write_line(eob(Start(cap), 0), 0, "doc",
                       data_type_entry.name, <<>>, data_type_entry))

\* Generator::gen_type_header.
run_gen_type_header(reg, data_type_entry, cap) ==
    Outcome(reg,
            write_line(eob(Start(cap), 0), 0, "doc",
                       data_type_entry.name, <<>>, data_type_entry))

\* Generator::gen_alias.
run_gen_alias(reg, data_type_entry, cap) ==
    IF data_type_entry.kind # "Alias"
    THEN Outcome(reg, panic(Start(cap), "PanicUnreachable"))
    ELSE LET pointee == data_type_entry.to
             reg1 == define_name(reg, data_type_entry)
             typename == reg1[data_type_entry.id]
         IN IF ~resolves(reg1, pointee)
            THEN Outcome(reg1, panic(Start(cap), "PanicDefinitionExists"))
            ELSE Outcome(reg1,
                         eob(write_line(Start(cap), 0, "alias", typename,
                                        get_defined_name(reg1, pointee), NoDecl),
                             0))

\* A faulty member loop, against which C5_OrderPreservation is validated: it
\* walks the members from the last to the first.
RECURSIVE write_members_reversed(_, _, _, _)
write_members_reversed(st, indent, reg, named_members) ==
    IF named_members = <<>> \/ st.res # "Ok" THEN st
    ELSE LET m == named_members[Len(named_members)] IN
         IF ~resolves(reg, m.type_) THEN panic(st, "PanicDefinitionExists")
         ELSE write_members_reversed(
                  write_line(st, indent, "field", to_snake_case(m.name),
                             get_defined_name(reg, m.type_), NoDecl),
                  indent, reg, SubSeq(named_members, 1, Len(named_members) - 1))

\* The loop over named_members in gen_struct: one field line per member, in
\* order, on the nested writer; an unresolved member type panics.
RECURSIVE write_members(_, _, _, _)
write_members(st, indent, reg, named_members) ==
    IF named_members = <<>> \/ st.res # "Ok" THEN st
    ELSE LET m == Head(named_members) IN
         IF ~resolves(reg, m.type_) THEN panic(st, "PanicDefinitionExists")
         ELSE write_members(
                  write_line(st, indent, "field", to_snake_case(m.name),
                             get_defined_name(reg, m.type_), NoDecl),
                  indent, reg, Tail(named_members))

\* A faulty gen_struct, against which C10_StructDefinedFirst is validated: it
\* resolves the members before it registers the struct's own name.
run_gen_struct_define_last(reg, data_type_entry, cap) ==
    IF data_type_entry.kind # "Struct"
    THEN Outcome(reg, panic(Start(cap), "PanicUnreachable"))
    ELSE LET typename == to_camel_case(data_type_entry.name)
             st1 == write_line(
                        write_line(Start(cap), 0, "repr_c", <<>>, <<>>, NoDecl),
                        0, "struct_open", typename, <<>>, NoDecl)
             st2 == write_members(st1, new_block(0), reg, data_type_entry.members)
             reg1 == IF st2.res \in {"Ok", "ErrIo"}
                     THEN insert(reg, data_type_entry.id, typename) ELSE reg
         IN Outcome(reg1, eob(write_line(st2, 0, "close", <<>>, <<>>, NoDecl), 0))

\* Generator::gen_struct.
run_gen_struct(reg, data_type_entry, cap) ==
    IF data_type_entry.kind # "Struct"
    THEN Outcome(reg, panic(Start(cap), "PanicUnreachable"))
    ELSE LET typename == to_camel_case(data_type_entry.name)
             reg1 == insert(reg, data_type_entry.id, typename)
             st1 == write_line(
                        write_line(Start(cap), 0, "repr_c", <<>>, <<>>, NoDecl),
                        0, "struct_open", typename, <<>>, NoDecl)
             st2 == write_members(st1, new_block(0), reg1, data_type_entry.members)
         IN Outcome(reg1, eob(write_line(st2, 0, "close", <<>>, <<>>, NoDecl), 0))

\* The loop over named_members in gen_enum: one variant line per variant.
RECURSIVE write_variants(_, _, _)
write_variants(st, indent, named_members) ==
    IF named_members = <<>> \/ st.res # "Ok" THEN st
    ELSE write_variants(
             write_line(st, indent, "variant", to_camel_case(Head(named_members)),
                        <<>>, NoDecl),
             indent, Tail(named_members))

\* Generator::gen_enum.
run_gen_enum(reg, data_type_entry, cap) ==
    IF data_type_entry.kind # "Enum"
    THEN Outcome(reg, panic(Start(cap), "PanicUnreachable"))
    ELSE LET typename == to_camel_case(data_type_entry.name)
             reg1 == insert(reg, data_type_entry.id, typename)
             st1 == write_line(
                        write_line(
                            write_line(Start(cap), 0, "repr_c", <<>>, <<>>, NoDecl),
                            0, "derive", <<>>, <<>>, NoDecl),
                        0, "enum_open", typename, <<>>, NoDecl)
             st2 == write_variants(st1, new_block(0), data_type_entry.variants)
         IN Outcome(reg1, eob(write_line(st2, 0, "close", <<>>, <<>>, NoDecl), 0))

\* Generator::gen_function: unimplemented!().
run_gen_function(reg, func_decl_entry, cap) ==
    Outcome(reg, panic(Start(cap), "PanicNotImplemented"))

\* ------------------------------------------------------------------ inputs
TypeNames == {<<"a", "_", "b">>, <<"c", "D">>}

\* The declared name of a struct's k-th member, of an enum's k-th variant.
FieldName(k) == IF k % 2 = 1 THEN <<"x">> ELSE <<"y", "Z">>

VariantName(k) == IF k % 2 = 1 THEN <<"r", "e", "d">> ELSE <<"g", "_", "b">>

\* Every reference: every atom, and every Ident.
Refs == {Atom(a) : a \in AtomKinds} \cup {Defined(i) : i \in Idents}

\* The references the struct members of the inputs are drawn from.
MemberRefs == {Atom("F64"), Atom("I8")} \cup {Defined(i) : i \in Idents}

\* The member lists of at most MaxMembers members.
MemberLists ==
    UNION {{[k \in 1..n |-> [name |-> FieldName(k), type_ |-> ts[k]]] :
                ts \in [1..n -> MemberRefs]} : n \in 0..MaxMembers}

VariantLists == {[k \in 1..n |-> VariantName(k)] : n \in 0..MaxMembers}

AliasDecls == {Alias(i, n, t) : i \in Idents, n \in TypeNames, t \in Refs}

StructDecls == {Struct(i, n, ms) : i \in Idents, n \in TypeNames, ms \in MemberLists}

EnumDecls == {Enum(i, n, vs) : i \in Idents, n \in TypeNames, vs \in VariantLists}

Decls == AliasDecls \cup StructDecls \cup EnumDecls

FuncDecls == {Func(i, n) : i \in Idents, n \in TypeNames}

\* The number of writes an invocation makes when none fails. The sink accepts
\* the first cap writes of an invocation, cap in 0..Writes: all of them, or it
\* becomes unwritable at any one of them.
Writes(op, d) ==
    CASE op = "gen_type_header" -> 2
      [] op = "gen_alias" /\ d.kind = "Alias" -> 2
      [] op = "gen_struct" /\ d.kind = "Struct" -> Len(d.members) + 4
      [] op = "gen_enum" /\ d.kind = "Enum" -> Len(d.variants) + 5
      [] OTHER -> 0

\* ------------------------------------------------------------------- state
VARIABLES
    defined,   \* RustGenerator.defined
    written,   \* the lines the invocation appended to the sink of RustGenerator.w
    result,    \* the invocation's result ("None" between invocations)
    call,      \* the invocation: its operation and its declaration
    before     \* the registry when the invocation began

vars == <<defined, written, result, call, before>>

\* RustGenerator::new.
Init ==
    /\ defined = <<>>
    /\ written = <<>>
    /\ result = "None"
    /\ call = [op |-> "new", decl |-> NoDecl]
    /\ before = <<>>

\* The Driver is between two invocations.
Running == result = "None"

Invoke(op, decl, r) ==
    /\ Running
    /\ defined' = r.defined
    /\ written' = r.lines
    /\ result' = r.res
    /\ call' = [op |-> op, decl |-> decl]
    /\ before' = defined

gen_type_header(d, cap) ==
    Invoke("gen_type_header", d, run_gen_type_header(defined, d, cap))

gen_alias(d, cap) ==
    Invoke("gen_alias", d, run_gen_alias(defined, d, cap))

gen_struct(d, cap) ==
    Invoke("gen_struct", d, run_gen_struct(defined, d, cap))

gen_enum(d, cap) ==
    Invoke("gen_enum", d, run_gen_enum(defined, d, cap))

gen_function(f, cap) ==
    Invoke("gen_function", f, run_gen_function(defined, f, cap))

\* The Driver, whose invocation returned success, goes on to its next
\* declaration. The session is fail-fast: after a panic or a reported failure
\* it makes no further invocation.
Proceed ==
    /\ result = "Ok"
    /\ result' = "None"
    /\ written' = <<>>
    /\ call' = [op |-> "new", decl |-> NoDecl]
    /\ before' = defined
    /\ UNCHANGED defined

Next ==
    \/ /\ Running
       /\ \E d \in Decls : \E cap \in 0..Writes("gen_type_header", d) :
              gen_type_header(d, cap)
    \/ /\ Running
       /\ \E d \in Decls : \E cap \in 0..Writes("gen_alias", d) : gen_alias(d, cap)
    \/ /\ Running
       /\ \E d \in Decls : \E cap \in 0..Writes("gen_struct", d) : gen_struct(d, cap)
    \/ /\ Running
       /\ \E d \in Decls : \E cap \in 0..Writes("gen_enum", d) : gen_enum(d, cap)
    \/ /\ Running
       /\ \E f \in FuncDecls : gen_function(f, 0)
    \/ Proceed

Spec == Init /\ [][Next]_vars

\* ----------------------------------------------------------------- helpers
\* The last invocation was `op` on a declaration of the variant `op` handles.
Did(op, kind) == call.op = op /\ call.decl.kind = kind

Panicked ==
    result \in {"PanicUnreachable", "PanicDefinitionExists", "PanicNotImplemented"}

\* The Idents a member list refers to.
MemberIds(ms) == {ms[k].type_.id : k \in {j \in 1..Len(ms) : ms[j].type_.tag = "Defined"}}

\* The fixed semantic width and class of an AtomKind.
KindBits(a) ==
    CASE a \in {"U8", "I8"} -> 8
      [] a \in {"U16", "I16"} -> 16
      [] a \in {"U32", "I32", "F32"} -> 32
      [] a \in {"U64", "I64", "F64"} -> 64
      [] OTHER -> 0

KindClass(a) ==
    CASE a \in {"U8", "U16", "U32", "U64"} -> "unsigned"
      [] a \in {"I8", "I16", "I32", "I64"} -> "signed"
      [] a \in {"F32", "F64"} -> "float"
      [] OTHER -> "bool"

\* The width and class of the Rust primitive type a token names.
TokenBits(tok) ==
    CASE Tail(tok) = <<"8">> -> 8
      [] Tail(tok) = <<"1", "6">> -> 16
      [] Tail(tok) = <<"3", "2">> -> 32
      [] Tail(tok) = <<"6", "4">> -> 64
      [] OTHER -> 0

TokenClass(tok) ==
    CASE Head(tok) = "u" -> "unsigned"
      [] Head(tok) = "i" -> "signed"
      [] Head(tok) = "f" -> "float"
      [] OTHER -> "bool"

AtomTokens == {atom_name(a) : a \in AtomKinds}

\* ------------------------------------------------------------------ claims

\* C1 (as claimed): when gen_alias is invoked on an alias whose target is
\* Defined(id), or gen_struct on a struct with a member of type Defined(id),
\* and id was not in the registry when the invocation began (for a struct,
\* id other than the struct's own Ident; for an alias, its own Ident
\* included), the invocation fails fatally and writes no alias line and no
\* field line for that reference. ("Fails" is read as "does not succeed": a
\* sink failure may come before the reference is reached.)
C1_ForwardReferenceSafety ==
    /\ (Did("gen_alias", "Alias")
        /\ call.decl.to.tag = "Defined"
        /\ call.decl.to.id \notin DOMAIN before)
       => (result # "Ok" /\ written = <<>>)
    /\ Did("gen_struct", "Struct")
       => \A k \in 1..Len(call.decl.members) :
            LET t == call.decl.members[k].type_ IN
            (t.tag = "Defined" /\ t.id \notin DOMAIN before /\ t.id # call.decl.id)
            => (result # "Ok" /\ Len(written) < k + 2)

\* C2 (as claimed): an invocation of gen_alias, gen_struct or gen_enum for a
\* declaration whose Ident is already in the registry aborts fatally and
\* leaves the registry as it was. ("Aborts" is read as "does not succeed".)
C2_DuplicateDefinitionFatal ==
    (/\ \/ Did("gen_alias", "Alias")
        \/ Did("gen_struct", "Struct")
        \/ Did("gen_enum", "Enum")
     /\ call.decl.id \in DOMAIN before)
    => (result # "Ok" /\ defined = before)

\* C3 (as claimed): gen_function returns a NotImplemented failure to its
\* caller (not a fatal abort), writes nothing and leaves the registry as it was.
C3_NotImplementedReported ==
    call.op = "gen_function"
    => (result = "ErrNotImplemented" /\ written = <<>> /\ defined = before)

\* C4 (as claimed), for a chain of one alias: once gen_alias has processed
\* alias A = Atom(k), resolving Defined(A) yields the token atom_name(k).
C4_AliasResolvesToAtomToken ==
    (Did("gen_alias", "Alias") /\ result = "Ok" /\ call.decl.to.tag = "Atom")
    => get_defined_name(defined, Defined(call.decl.id)) = atom_name(call.decl.to.atom)

\* C4 (amended): gen_alias registers the alias under its own type-cased name,
\* so no Ident ever resolves to an atomic token; and the alias line it writes
\* binds that name to the name its target resolves to: atom_name(k) for
\* Atom(k), the registered type-cased name of the target for Defined(id).
C4_AliasResolvesToOwnName ==
    /\ \A i \in DOMAIN defined :
         /\ defined[i] \in {to_camel_case(n) : n \in TypeNames}
         /\ defined[i] \notin AtomTokens
    /\ Did("gen_alias", "Alias")
       => /\ get_defined_name(defined, Defined(call.decl.id))
               = to_camel_case(call.decl.name)
          /\ result = "Ok"
             => /\ written[1].kind = "alias"
                /\ written[1].name = to_camel_case(call.decl.name)
                /\ written[1].ty = IF call.decl.to.tag = "Atom"
                                   THEN atom_name(call.decl.to.atom)
                                   ELSE defined[call.decl.to.id]

\* C4 witness: an alias of an alias has been generated.
C4_Witness ==
    /\ Did("gen_alias", "Alias")
    /\ result = "Ok"
    /\ call.decl.to.tag = "Defined"
    /\ call.decl.to.id # call.decl.id
    /\ call.decl.to.id \in DOMAIN before

\* C5: the lines gen_struct writes are, in this order, the representation
\* directive, the opening line, one field line per declared member in the
\* declared order one level deeper, the closing line and the spacing marker;
\* likewise gen_enum with one variant line per declared variant. An
\* invocation that fails has written a prefix of these lines, one that
\* succeeds all of them.
C5_OrderPreservation ==
    /\ Did("gen_struct", "Struct")
       => LET ms == call.decl.members
              n == Len(ms)
          IN /\ Len(written) <= n + 4
             /\ result = "Ok" => Len(written) = n + 4
             /\ \A j \in 1..Len(written) :
                  /\ j = 1 => written[j].kind = "repr_c"
                  /\ j = 2 => /\ written[j].kind = "struct_open"
                              /\ written[j].name = to_camel_case(call.decl.name)
                  /\ (3 <= j /\ j <= n + 2)
                     => /\ written[j].kind = "field"
                        /\ written[j].indent = 1
                        /\ written[j].name = to_snake_case(ms[j - 2].name)
                        /\ written[j].ty = get_defined_name(defined, ms[j - 2].type_)
                  /\ j = n + 3 => written[j].kind = "close" /\ written[j].indent = 0
                  /\ j = n + 4 => written[j].kind = "blank"
    /\ Did("gen_enum", "Enum")
       => LET vs == call.decl.variants
              n == Len(vs)
          IN /\ Len(written) <= n + 5
             /\ result = "Ok" => Len(written) = n + 5
             /\ \A j \in 1..Len(written) :
                  /\ j = 1 => written[j].kind = "repr_c"
                  /\ j = 2 => written[j].kind = "derive"
                  /\ j = 3 => /\ written[j].kind = "enum_open"
                              /\ written[j].name = to_camel_case(call.decl.name)
                  /\ (4 <= j /\ j <= n + 3)
                     => /\ written[j].kind = "variant"
                        /\ written[j].indent = 1
                        /\ written[j].name = to_camel_case(vs[j - 3])
                  /\ j = n + 4 => written[j].kind = "close" /\ written[j].indent = 0
                  /\ j = n + 5 => written[j].kind = "blank"

\* C5 witness: a struct of at least two members with different names and
\* different types has been generated.
C5_Witness ==
    /\ Did("gen_struct", "Struct")
    /\ result = "Ok"
    /\ Len(call.decl.members) >= 2
    /\ call.decl.members[1].name # call.decl.members[2].name
    /\ call.decl.members[1].type_ # call.decl.members[2].type_

\* C6 (as claimed): when gen_alias or gen_struct fails fatally on an
\* unresolved reference, it has written nothing.
C6_NothingWrittenOnUnresolved ==
    (/\ Did("gen_alias", "Alias") \/ Did("gen_struct", "Struct")
     /\ result = "PanicDefinitionExists")
    => written = <<>>

\* C7 (as claimed): the token gen_alias writes for an alias of Atom(k) is
\* non-empty and names a host type of the class (unsigned, signed, float) and
\* the bit width of k.
C7_AtomWidthFaithful ==
    (Did("gen_alias", "Alias") /\ result = "Ok" /\ call.decl.to.tag = "Atom")
    => LET k == call.decl.to.atom
           tok == written[1].ty
       IN /\ tok # <<>>
          /\ k # "Bool" => (TokenClass(tok) = KindClass(k) /\ TokenBits(tok) = KindBits(k))

\* C8 (as claimed): gen_type_header always returns success and leaves the
\* registry as it was.
C8_HeaderAlwaysSucceeds ==
    call.op = "gen_type_header" => (result = "Ok" /\ defined = before)

\* C8 (amended): gen_type_header leaves the registry as it was and never
\* aborts; it returns success exactly when the sink accepted both of its
\* writes (the spacing marker, then the comment line naming the
\* declaration), and otherwise returns the sink's failure.
C8_HeaderFrame ==
    call.op = "gen_type_header"
    => /\ defined = before
       /\ \/ /\ result = "Ok"
             /\ Len(written) = 2
             /\ written[1].kind = "blank"
             /\ written[2].kind = "doc"
             /\ written[2].name = call.decl.name
             /\ written[2].dbg = call.decl
          \/ /\ result = "ErrIo"
             /\ Len(written) < 2
             /\ \A j \in 1..Len(written) : written[j].kind = "blank"

\* C8 witness: the sink rejected the comment line of a header written into a
\* non-empty registry.
C8_Witness ==
    /\ call.op = "gen_type_header"
    /\ result = "ErrIo"
    /\ Len(written) = 1
    /\ before # <<>>

\* C9 (as claimed): an invocation removes no Ident from the registry and
\* changes the name of none.
C9_RegistryStable ==
    \A i \in DOMAIN before : i \in DOMAIN defined /\ defined[i] = before[i]

\* C10: gen_struct registers the struct's Ident under its type-cased name
\* whatever the invocation's outcome; every field line it writes for a member
\* of type Defined(its own Ident) names that type-cased name; and it aborts
\* only on a member that refers to another Ident, absent from the registry.
C10_StructDefinedFirst ==
    Did("gen_struct", "Struct")
    => LET ms == call.decl.members
           own == to_camel_case(call.decl.name)
       IN /\ call.decl.id \in DOMAIN defined
          /\ defined[call.decl.id] = own
          /\ \A k \in 1..Len(ms) :
               (ms[k].type_ = Defined(call.decl.id) /\ Len(written) >= k + 2)
               => written[k + 2].ty = own
          /\ Panicked
             => \E k \in 1..Len(ms) :
                  /\ ms[k].type_.tag = "Defined"
                  /\ ms[k].type_.id # call.decl.id
                  /\ ms[k].type_.id \notin DOMAIN before

\* C10 witness: a struct with a member of its own type, whose Ident was not in
\* the registry before, has been generated.
C10_Witness ==
    /\ Did("gen_struct", "Struct")
    /\ result = "Ok"
    /\ call.decl.id \notin DOMAIN before
    /\ call.decl.id \in MemberIds(call.decl.members)

====
